---- MODULE Spec2Model ----
(***************************************************************************)
(* A model of the single-hand position solver of MercuryGestures           *)
(* (src/MercuryGestures/Hand.cpp): estimate fusion, the local search       *)
(* optimizer, the recovery strategies, the temporal smoother, the history  *)
(* ring buffers and the intersection resolver.                             *)
(*                                                                         *)
(* Points are pairs <<x, y>> of integer pixel coordinates.  A mask is a    *)
(* set of disjoint, fully "on" (255) rectangles <<x0, y0, x1, y1>> inside  *)
(* the frame; every other pixel is 0.                                      *)
(***************************************************************************)
EXTENDS Integers, Sequences, FiniteSets, TLC

VARIABLES
    \* ---- the fields of one Hand ----
    position, positionHistory, positionIndex,
    blobEstimate, blobHistory, blobIndex,
    estimateUpdated, intersecting, ignoreIntersect, leftHand,
    \* ---- observation of the last call (history variables) ----
    last,        \* what the last call was and what it did
    frameMask,   \* the skin mask of the current frame
    frames,      \* number of solve calls so far
    estCalls,    \* setEstimate calls since the last solve
    interCalls,  \* handleIntersection calls since the last solve
    nRecorded,   \* number of positions pushed into positionHistory
    nBlobs,      \* number of blobs pushed into blobHistory
    accepted,    \* setEstimate accepted an estimate since the last solve
    \* ---- one lookAround call, iteration by iteration ----
    la,
    \* ---- one getPredictedPosition call ----
    pr,
    \* ---- one call of another member function on a prepared Hand ----
    fn

vars == <<position, positionHistory, positionIndex, blobEstimate, blobHistory,
          blobIndex, estimateUpdated, intersecting, ignoreIntersect, leftHand,
          last, frameMask, frames, estCalls, interCalls, nRecorded, nBlobs, accepted, la, pr, fn>>

handVars == <<position, positionHistory, positionIndex, blobEstimate, blobHistory,
              blobIndex, estimateUpdated, intersecting, ignoreIntersect, leftHand,
              last, frameMask, frames, estCalls, interCalls, nRecorded, nBlobs, accepted>>

-----------------------------------------------------------------------------
(* Bounds of the model *)

\* frame (mask) width and height in pixels
FrameW == 24
FrameH == 24
\* number of solve calls explored
MaxFrames == 2
\* capacity of the history ring buffers (the code needs historySize >= 5)
historySize == 5
\* height of the frame of the blob lists given to the search mode selector
ModeFrameH == 42

(* Scale fields of Hand, declared outside Hand.cpp *)
cmInPixels == 1
maxVelocity == 4
fps == 2
faceCoverageThreshold == 10

-----------------------------------------------------------------------------
(* Geometry *)

Sentinel == <<0, 0>>

Abs(n) == IF n < 0 THEN -n ELSE n
Min(a, b) == IF a < b THEN a ELSE b
Max(a, b) == IF a < b THEN b ELSE a

\* C++ integer division and double -> int conversion truncate toward zero
TruncDiv(a, b) == IF a >= 0 THEN a \div b ELSE -((-a) \div b)

DistSq(p, q) == (p[1] - q[1]) * (p[1] - q[1]) + (p[2] - q[2]) * (p[2] - q[2])

\* the radii the code uses: 5 cm (coverage, quality), 8.5 cm truncated (area
\* search) and 30 px (motion quality)
coverageRadius == 5 * cmInPixels
areaRadius == (85 * cmInPixels) \div 10
motionRadius == 30

Radii == {coverageRadius, areaRadius, motionRadius}

\* half width of the filled circle of radius r on the row at vertical distance d
HalfWidth == [r \in Radii |-> [d \in 0..r |->
                 CHOOSE w \in 0..r : w * w <= r * r - d * d
                                     /\ (w + 1) * (w + 1) > r * r - d * d]]

\* on-pixels of rectangle rc on row y inside the circle (c, r)
RowCount(c, r, rc, y) ==
    LET hw == HalfWidth[r][Abs(y - c[2])]
        lo == Max(rc[1], c[1] - hw)
        hi == Min(rc[3], c[1] + hw)
    IN  IF hi >= lo THEN hi - lo + 1 ELSE 0

RECURSIVE RowsCount(_, _, _, _, _)
RowsCount(c, r, rc, y, yEnd) ==
    IF y > yEnd THEN 0
    ELSE RowCount(c, r, rc, y) + RowsCount(c, r, rc, y + 1, yEnd)

RectCount(c, r, rc) ==
    RowsCount(c, r, rc, Max(rc[2], c[2] - r), Min(rc[4], c[2] + r))

RECURSIVE SumRects(_, _, _)
SumRects(c, r, rects) ==
    IF rects = {} THEN 0
    ELSE LET rc == CHOOSE x \in rects : TRUE
         IN  RectCount(c, r, rc) + SumRects(c, r, rects \ {rc})

\* number of on-pixels of the mask under the filled circle: cv::sum(result)/255
OnPixels(pos, blobMap, radius) == SumRects(pos, radius, blobMap)

-----------------------------------------------------------------------------
(* The masks of the explored frames *)

AllOff == {}
AllOn == {<<0, 0, FrameW - 1, FrameH - 1>>}
\* a compact skin blob, a tall one, two small ones and a thin line
BlobMask == {<<8, 8, 15, 15>>}
TallMask == {<<10, 2, 13, 20>>}
TwoBlobs == {<<2, 2, 7, 7>>, <<14, 12, 21, 19>>}
LineMask == {<<3, 12, 20, 12>>}
\* motion in a part of the frame: a little, and some
SmallMotion == {<<10, 10, 13, 13>>}
HalfMotion == {<<0, 0, FrameW - 1, 11>>}

MovementMaps == {AllOff, AllOn}
LookMasks == {AllOff, AllOn, BlobMask, TallMask, TwoBlobs, LineMask}

\* The on-pixel counts of the points in and around the frame are tabulated
\* once, as sequences indexed by mask, radius and point
TableMargin == 10
TableW == FrameW + 2 * TableMargin
TableH == FrameH + 2 * TableMargin

inTable(p) ==
    /\ p[1] >= 0 - TableMargin /\ p[1] < FrameW + TableMargin
    /\ p[2] >= 0 - TableMargin /\ p[2] < FrameH + TableMargin

tableIndex(p) == (p[2] + TableMargin) * TableW + (p[1] + TableMargin) + 1
tablePoint(i) == <<((i - 1) % TableW) - TableMargin, ((i - 1) \div TableW) - TableMargin>>

MaskList == <<AllOff, AllOn, BlobMask, TallMask, TwoBlobs, LineMask, SmallMotion,
              HalfMotion>>
RadiusList == <<coverageRadius, areaRadius, motionRadius>>

maskIndex(m) == CHOOSE i \in 1..Len(MaskList) : MaskList[i] = m
radiusIndex(r) == CHOOSE i \in 1..Len(RadiusList) : RadiusList[i] = r

coverageTable ==
    [mi \in 1..Len(MaskList) |->
       [ri \in 1..Len(RadiusList) |->
          [i \in 1..(TableW * TableH) |->
             OnPixels(tablePoint(i), MaskList[mi], RadiusList[ri])] \o <<>>] \o <<>>]
      \o <<>>

\* getCoverage returns OnPixels / (radius*radius*3.1415); two coverages of the
\* same radius compare as their pixel counts, and a coverage compares with a
\* threshold num/den as below (3.1415 = 6283/2000; the quotients keep the
\* products inside the machine integers)
getCoverage(pos, blobMap, radius) ==
    IF inTable(pos)
    THEN coverageTable[maskIndex(blobMap)][radiusIndex(radius)][tableIndex(pos)]
    ELSE OnPixels(pos, blobMap, radius)

CoverageAbove(count, radius, num, den) ==
    count > (num * radius * radius * 6283) \div (den * 2000)

CoverageBelow(count, radius, num, den) ==
    count <= (num * radius * radius * 6283 - 1) \div (den * 2000)

-----------------------------------------------------------------------------
(* Search window: the sub-window is cut around a point and points are moved *)
(* into and out of window coordinates.                                      *)

WindowHalf == 100

getSearchSpace(mask, p, half) ==
    [x |-> Max(0, p[1] - half), y |-> Max(0, p[2] - half), mat |-> mask]

toSearchSpace(space, p) == <<p[1] - space.x, p[2] - space.y>>
fromSearchSpace(space, p) == <<p[1] + space.x, p[2] + space.y>>

\* coverage of a window-local point in the window's sub-mask
windowCoverage(space, p, radius) ==
    getCoverage(fromSearchSpace(space, p), space.mat, radius)

getPointQuality(point, qualityMask, radius) ==
    LET r == IF radius = 0 THEN coverageRadius ELSE radius
        space == getSearchSpace(qualityMask, point, 2 * r)
    IN  windowCoverage(space, toSearchSpace(space, point), r)

-----------------------------------------------------------------------------
(* Local search optimizer: Hand::lookAround *)

SearchModes == {"FREE_SEARCH", "SEARCH_UP", "SEARCH_DOWN", "SEARCH_LEFT", "SEARCH_RIGHT"}

\* the candidate offsets of each mode, in the order the code fills newValues
Offsets(searchMode, s) ==
    CASE searchMode = "SEARCH_RIGHT" ->
           << <<0, s>>, <<0, -s>>, <<-s, s>>, <<-s, -s>>, <<-s, 0>> >>
      [] searchMode = "SEARCH_LEFT" ->
           << <<0, s>>, <<0, -s>>, <<s, s>>, <<s, -s>>, <<s, 0>> >>
      [] searchMode = "SEARCH_UP" ->
           << <<-s, 0>>, <<s, 0>>, <<s, -s>>, <<-s, -s>>, <<0, -s>> >>
      [] searchMode = "SEARCH_DOWN" ->
           << <<-s, 0>>, <<s, 0>>, <<s, s>>, <<-s, s>>, <<0, s>> >>
      [] OTHER ->
           << <<s, s>>, <<s, -s>>, <<s, 0>>, <<-s, s>>, <<-s, -s>>, <<-s, 0>>,
              <<0, s>>, <<0, -s>> >>

shiftPosition(basePosition, off) ==
    <<basePosition[1] + off[1], basePosition[2] + off[2]>>

\* the key under which a point is stored in the visited set
visitedKey(p) == p[1] * 1000 + p[2]

\* a variant that forgets the visited set
notVisitedNever(visited, p) == TRUE

\* line 475: the candidate is allowed if it is not in the visited set
notVisited(visited, p) == visitedKey(p) \notin visited

\* a variant that moves to the best candidate whatever its value
acceptMoveAlways(newMax, maxValue) == TRUE

\* line 482: move if the best candidate is at least as good as the current point
acceptMove(newMax, maxValue) == newMax >= maxValue

\* a variant of the scan in which a later candidate of equal value wins
RECURSIVE pickMaxLastTie(_, _, _, _, _)
pickMaxLastTie(newValues, newPositions, visited, j, best) ==
    IF j > Len(newValues) THEN best
    ELSE IF best.newMax <= newValues[j] /\ notVisited(visited, newPositions[j])
         THEN pickMaxLastTie(newValues, newPositions, visited, j + 1,
                             [newMax |-> newValues[j], maxIndex |-> j])
         ELSE pickMaxLastTie(newValues, newPositions, visited, j + 1, best)

\* lines 470-480: scan the candidates for the maximum, starting from
\* newMax = 0, maxIndex = 0 (index of the first candidate)
RECURSIVE pickMax(_, _, _, _, _)
pickMax(newValues, newPositions, visited, j, best) ==
    IF j > Len(newValues) THEN best
    ELSE IF best.newMax < newValues[j] /\ notVisited(visited, newPositions[j])
         THEN pickMax(newValues, newPositions, visited, j + 1,
                      [newMax |-> newValues[j], maxIndex |-> j])
         ELSE pickMax(newValues, newPositions, visited, j + 1, best)

\* the state of the loop of lookAround: window-local current point, its value,
\* the visited set, the iteration counter; path and reinserted observe it
lookStart(start, skinMask, radius) ==
    LET space == getSearchSpace(skinMask, start, WindowHalf)
        maxPos == toSearchSpace(space, start)
    IN  [space |-> space, maxPos |-> maxPos,
         maxValue |-> windowCoverage(space, maxPos, radius),
         visited |-> {}, i |-> 0, done |-> FALSE,
         path |-> <<maxPos>>, reinserted |-> FALSE, moves |-> 0]

\* lines 482-495: move to the best candidate or stop at the local maximum
moveOrStop(st, newPositions, best) ==
    IF acceptMove(best.newMax, st.maxValue)
    THEN [st EXCEPT !.maxValue = best.newMax,
                    !.maxPos = newPositions[best.maxIndex],
                    !.visited = @ \cup {visitedKey(newPositions[best.maxIndex])},
                    !.i = @ + 1,
                    !.path = Append(@, newPositions[best.maxIndex]),
                    !.reinserted =
                        @ \/ visitedKey(newPositions[best.maxIndex]) \in st.visited,
                    !.moves = @ + 1]
    ELSE [st EXCEPT !.done = TRUE]

\* lines 425-467: the coverage of each candidate
newValuesAt(space, newPositions, radius) ==
    [j \in 1..Len(newPositions) |-> windowCoverage(space, newPositions[j], radius)]

\* lines 425-467: the candidates around the current point
newPositionsAt(maxPos, offs) ==
    [j \in 1..Len(offs) |-> shiftPosition(maxPos, offs[j])]

scanCandidates(st, newPositions, radius) ==
    moveOrStop(st, newPositions,
               pickMax(newValuesAt(st.space, newPositions, radius), newPositions,
                       st.visited, 1, [newMax |-> 0, maxIndex |-> 1]))

\* one iteration of the for loop (lines 422-496)
lookIteration(st, maxIterations, stepSize, radius, searchMode) ==
    IF st.i >= maxIterations THEN [st EXCEPT !.done = TRUE]
    ELSE scanCandidates(st, newPositionsAt(st.maxPos, Offsets(searchMode, stepSize)),
                        radius)

RECURSIVE lookLoop(_, _, _, _, _)
lookLoop(st, maxIterations, stepSize, radius, searchMode) ==
    IF st.done THEN st
    ELSE lookLoop(lookIteration(st, maxIterations, stepSize, radius, searchMode),
                  maxIterations, stepSize, radius, searchMode)

\* lines 498-528: back to frame coordinates
lookResult(st) == fromSearchSpace(st.space, st.maxPos)

lookAround(start, skinMask, maxIterations, stepSize, radius, searchMode) ==
    lookResult(lookLoop(lookStart(start, skinMask, radius),
                        maxIterations, stepSize, radius, searchMode))

-----------------------------------------------------------------------------
(* History ring buffers *)

\* a variant that wraps one slot early
getNextIndexWrapEarly(index) == (index + 1) % (historySize - 1)

\* lines 578-580
getNextIndex(index) == (index + 1) % historySize

\* a variant that does not wrap below slot 0
getPreviousIndexStayAtZero(index) == IF (index - 1) < 0 THEN 0 ELSE index - 1

\* lines 583-585
getPreviousIndex(index) == IF (index - 1) < 0 THEN index - 1 + historySize ELSE index - 1

Slots == 0..(historySize - 1)

\* the value of a default-constructed BlobInformation (blobHistory.resize)
DefaultBlob == [left |-> 0, right |-> 0, top |-> 0, bottom |-> 0, type |-> "NONE"]

\* the Hand as a record of its fields
this ==
    [position |-> position, positionHistory |-> positionHistory,
     positionIndex |-> positionIndex, blobEstimate |-> blobEstimate,
     blobHistory |-> blobHistory, blobIndex |-> blobIndex,
     estimateUpdated |-> estimateUpdated, intersecting |-> intersecting,
     ignoreIntersect |-> ignoreIntersect, leftHand |-> leftHand]

-----------------------------------------------------------------------------
(* Estimate fusion: Hand::setEstimate *)

\* a variant that accepts the estimate of a hand that was never placed
rejectsOnlyHeadAboveFace(h, condition) ==
    condition = "ONLY_HEAD" /\ h.position[2] > faceCoverageThreshold

\* lines 27-31
rejectsOnlyHead(h, condition) ==
    condition = "ONLY_HEAD"
    /\ (h.position[2] = 0 \/ h.position[2] > faceCoverageThreshold)

\* a variant that stores the estimate before it tests the rejection
setEstimateStoreFirst(h, estimate, blob, ignoreIntersection, condition) ==
    LET h1 == IF blob.type = "HIGH" \/ ignoreIntersection
              THEN [h EXCEPT !.ignoreIntersect = TRUE] ELSE h
        h2 == [h1 EXCEPT !.blobEstimate = estimate]
    IN  IF rejectsOnlyHead(h2, condition) THEN h2
        ELSE [h2 EXCEPT !.blobIndex = getNextIndex(h1.blobIndex),
                        !.blobHistory = [@ EXCEPT ![getNextIndex(h1.blobIndex)] = blob],
                        !.estimateUpdated = TRUE]

\* lines 21-37
setEstimate(h, estimate, blob, ignoreIntersection, condition) ==
    LET h1 == IF blob.type = "HIGH" \/ ignoreIntersection
              THEN [h EXCEPT !.ignoreIntersect = TRUE] ELSE h
    IN  IF rejectsOnlyHead(h1, condition) THEN h1
        ELSE [h1 EXCEPT !.blobEstimate = estimate,
                        !.blobIndex = getNextIndex(h1.blobIndex),
                        !.blobHistory = [@ EXCEPT ![getNextIndex(h1.blobIndex)] = blob],
                        !.estimateUpdated = TRUE]

-----------------------------------------------------------------------------
(* Recovery strategies *)

\* a variant that never sees a jump
exceedsMaxDistanceNever(p, q) == FALSE

\* line 168: maxDistance = 2 * maxVelocity * cmInPixels / fps, compared with the
\* Euclidean distance (both sides squared and scaled by fps)
exceedsMaxDistance(p, q) ==
    DistSq(p, q) * fps * fps
      > (2 * maxVelocity * cmInPixels) * (2 * maxVelocity * cmInPixels)

\* the 0.2 quality gate on a count of on-pixels of the 5 cm circle
passesQualityGate(count) == CoverageAbove(count, coverageRadius, 2, 10)

\* lines 166-189; gateChecked and gatePassed observe the quality test
improveByAreaSearch(h, skinMask, reference) ==
    IF exceedsMaxDistance(reference, h.position) \/ h.estimateUpdated = FALSE
    THEN LET pointQuality == getPointQuality(reference, skinMask, 0)
         IN  IF passesQualityGate(pointQuality)
             THEN [h |-> [h EXCEPT !.position =
                            lookAround(reference, skinMask, 10, 4, areaRadius,
                                       "FREE_SEARCH")],
                   searched |-> TRUE, gateChecked |-> TRUE]
             ELSE [h |-> h, searched |-> FALSE, gateChecked |-> TRUE]
    ELSE [h |-> h, searched |-> FALSE, gateChecked |-> FALSE]

\* lines 215-241: the better candidate, gated on the quality of the linear one
choosePrediction(linear, velocity, pointQuality, pointQualityVelocity, slots) ==
    [point |-> IF passesQualityGate(pointQuality)
               THEN (IF pointQualityVelocity > pointQuality THEN velocity ELSE linear)
               ELSE Sentinel,
     linear |-> linear, velocity |-> velocity,
     qLinear |-> pointQuality, qVelocity |-> pointQualityVelocity,
     slots |-> slots]

\* lines 194-242; the record also tells the two candidates, their qualities
\* and the three history slots read
getPredictedPosition(h, skinMask) ==
    LET p1_index == h.positionIndex
        p2_index == getPreviousIndex(p1_index)
        p3_index == getPreviousIndex(p2_index)
        position_n_1 == h.positionHistory[p1_index]
        position_n_2 == h.positionHistory[p2_index]
        position_n_3 == h.positionHistory[p3_index]
        dx1 == position_n_1[1] - position_n_2[1]
        dy1 == position_n_1[2] - position_n_2[2]
        dx2 == position_n_2[1] - position_n_3[1]
        dy2 == position_n_2[2] - position_n_3[2]
        predictedPosition == <<position_n_1[1] + dx1, position_n_1[2] + dy1>>
        predictedPositionVelocity ==
            <<position_n_1[1] + TruncDiv(dx1 + dx2, 2),
              position_n_1[2] + TruncDiv(dy1 + dy2, 2)>>
    IN  choosePrediction(predictedPosition, predictedPositionVelocity,
                         getPointQuality(predictedPosition, skinMask, 0),
                         getPointQuality(predictedPositionVelocity, skinMask, 0),
                         <<position_n_1, position_n_2, position_n_3>>)

-----------------------------------------------------------------------------
(* Search mode selector: Hand::getSearchModeFromBlobs, lines 249-282 *)

\* a variant that takes the box without its border
containsPositionInside(blob, p) ==
    blob.left < p[1] /\ blob.right > p[1] /\ blob.top < p[2] /\ blob.bottom > p[2]

\* lines 252-255
containsPosition(blob, p) ==
    blob.left <= p[1] /\ blob.right >= p[1] /\ blob.top <= p[2] /\ blob.bottom >= p[2]

modeOfBlob(blob) ==
    LET height == blob.bottom - blob.top
    IN  IF height < 15 * cmInPixels THEN "FREE_SEARCH"
        ELSE IF blob.type = "LOW" THEN "SEARCH_DOWN"
        ELSE IF blob.type = "MEDIUM"
             THEN (IF height > 40 * cmInPixels THEN "SEARCH_DOWN" ELSE "FREE_SEARCH")
        ELSE IF blob.type = "HIGH" THEN "SEARCH_UP"
        ELSE "FREE_SEARCH"

RECURSIVE firstContaining(_, _, _)
firstContaining(blobs, p, i) ==
    IF i > Len(blobs) THEN 0
    ELSE IF containsPosition(blobs[i], p) THEN i
    ELSE firstContaining(blobs, p, i + 1)

getSearchModeFromBlobs(h, blobs) ==
    LET i == firstContaining(blobs, h.position, 1)
    IN  IF i = 0 THEN "FREE_SEARCH" ELSE modeOfBlob(blobs[i])

-----------------------------------------------------------------------------
(* Double arithmetic.  The blend of improveUsingHistory is computed in C++  *)
(* doubles and converted to int; each operation is rounded to the nearest   *)
(* binary64 value, ties to even.  A natural number of any size is a         *)
(* sequence of 15-bit limbs, least significant first, without leading zero  *)
(* limbs; a double is sign, mantissa and exponent: (+/-) m * 2^e.           *)

Limb == 32768

RECURSIVE bigTrim(_)
bigTrim(a) ==
    IF a # <<>> /\ a[Len(a)] = 0 THEN bigTrim(SubSeq(a, 1, Len(a) - 1)) ELSE a

RECURSIVE bigOfNat(_)
bigOfNat(n) == IF n = 0 THEN <<>> ELSE <<n % Limb>> \o bigOfNat(n \div Limb)

RECURSIVE natOfBig(_)
natOfBig(a) == IF a = <<>> THEN 0 ELSE a[1] + Limb * natOfBig(Tail(a))

limbAt(a, i) == IF i <= Len(a) THEN a[i] ELSE 0

RECURSIVE bigAddFrom(_, _, _, _)
bigAddFrom(a, b, i, carry) ==
    IF i > Len(a) /\ i > Len(b) THEN (IF carry = 0 THEN <<>> ELSE <<carry>>)
    ELSE <<(limbAt(a, i) + limbAt(b, i) + carry) % Limb>>
           \o bigAddFrom(a, b, i + 1, (limbAt(a, i) + limbAt(b, i) + carry) \div Limb)

bigAdd(a, b) == bigAddFrom(a, b, 1, 0)

\* a - b for a >= b
RECURSIVE bigSubFrom(_, _, _, _)
bigSubFrom(a, b, i, borrow) ==
    IF i > Len(a) THEN <<>>
    ELSE IF a[i] - limbAt(b, i) - borrow < 0
         THEN <<a[i] - limbAt(b, i) - borrow + Limb>> \o bigSubFrom(a, b, i + 1, 1)
         ELSE <<a[i] - limbAt(b, i) - borrow>> \o bigSubFrom(a, b, i + 1, 0)

bigSub(a, b) == bigTrim(bigSubFrom(a, b, 1, 0))

RECURSIVE bigLessAt(_, _, _)
bigLessAt(a, b, i) ==
    IF i = 0 THEN FALSE
    ELSE IF a[i] # b[i] THEN a[i] < b[i]
    ELSE bigLessAt(a, b, i - 1)

bigLess(a, b) == IF Len(a) # Len(b) THEN Len(a) < Len(b) ELSE bigLessAt(a, b, Len(a))

\* a * k for a limb k <= Limb
RECURSIVE bigMulLimbFrom(_, _, _, _)
bigMulLimbFrom(a, k, i, carry) ==
    IF i > Len(a) THEN (IF carry = 0 THEN <<>> ELSE <<carry>>)
    ELSE <<(a[i] * k + carry) % Limb>>
           \o bigMulLimbFrom(a, k, i + 1, (a[i] * k + carry) \div Limb)

bigMulLimb(a, k) == bigTrim(bigMulLimbFrom(a, k, 1, 0))

RECURSIVE bigMulFrom(_, _, _)
bigMulFrom(a, b, j) ==
    IF j > Len(b) THEN <<>>
    ELSE bigAdd(bigMulLimb(a, b[j]), <<0>> \o bigMulFrom(a, b, j + 1))

bigMul(a, b) == bigTrim(bigMulFrom(a, b, 1))

\* quotient and remainder of a by a limb k, from the top limb down
RECURSIVE bigDivFrom(_, _, _, _)
bigDivFrom(a, k, i, rem) ==
    IF i = 0 THEN [q |-> <<>>, r |-> rem]
    ELSE LET rest == bigDivFrom(a, k, i - 1, (rem * Limb + a[i]) % k)
         IN  [q |-> Append(rest.q, (rem * Limb + a[i]) \div k), r |-> rest.r]

bigDivLimb(a, k) == bigDivFrom(a, k, Len(a), 0)

zeroLimbs(n) == [i \in 1..n |-> 0]

\* a * 2^n and the integer part of a / 2^n
bigShl(a, n) == bigTrim(zeroLimbs(n \div 15) \o bigMulLimb(a, 2 ^ (n % 15)))
bigShr(a, n) ==
    IF n \div 15 >= Len(a) THEN <<>>
    ELSE bigTrim(bigDivLimb(SubSeq(a, (n \div 15) + 1, Len(a)), 2 ^ (n % 15)).q)

RECURSIVE limbBits(_)
limbBits(n) == IF n = 0 THEN 0 ELSE 1 + limbBits(n \div 2)

bigBits(a) == IF a = <<>> THEN 0 ELSE 15 * (Len(a) - 1) + limbBits(a[Len(a)])

\* a / 2^s rounded to the nearest integer, ties to even
roundShift(a, s, q) ==
    IF bigLess(bigShl(<<1>>, s - 1), bigSub(a, bigShl(q, s)))
       \/ (bigSub(a, bigShl(q, s)) = bigShl(<<1>>, s - 1) /\ q[1] % 2 = 1)
    THEN bigAdd(q, <<1>>) ELSE q

\* the double nearest to (+/-) m * 2^e: 53 significant bits
toDouble(neg, m, e) ==
    IF bigBits(m) <= 53 THEN [neg |-> neg, m |-> m, e |-> e]
    ELSE [neg |-> neg,
          m |-> roundShift(m, bigBits(m) - 53, bigShr(m, bigBits(m) - 53)),
          e |-> e + bigBits(m) - 53]

\* int -> double
doubleOfInt(n) == [neg |-> n < 0, m |-> bigOfNat(Abs(n)), e |-> 0]

\* the quotient with a sticky last bit for the remainder
jamQuotient(d) == bigAdd(bigShl(bigTrim(d.q), 1), IF d.r > 0 THEN <<1>> ELSE <<>>)

\* the double num / den of two ints, 0 < den < Limb: a division of doubles
\* holding ints, and a decimal literal such as 0.95 = 95 / 100
doubleQuotient(num, den) ==
    toDouble(num < 0, jamQuotient(bigDivLimb(bigShl(bigOfNat(Abs(num)), 75), den)), -76)

doubleMul(a, b) == toDouble(a.neg # b.neg, bigMul(a.m, b.m), a.e + b.e)

\* the sum of two mantissas aligned on the same exponent e
alignedAdd(aNeg, am, bNeg, bm, e) ==
    IF aNeg = bNeg THEN toDouble(aNeg, bigAdd(am, bm), e)
    ELSE IF bigLess(am, bm) THEN toDouble(bNeg, bigSub(bm, am), e)
    ELSE toDouble(aNeg, bigSub(am, bm), e)

doubleAdd(a, b) ==
    alignedAdd(a.neg, bigShl(a.m, a.e - Min(a.e, b.e)),
               b.neg, bigShl(b.m, b.e - Min(a.e, b.e)), Min(a.e, b.e))

\* double -> int: the fraction is discarded
magnitudeOfDouble(a) ==
    IF a.e >= 0 THEN natOfBig(bigShl(a.m, a.e)) ELSE natOfBig(bigShr(a.m, 0 - a.e))

intOfDouble(a) == IF a.neg THEN 0 - magnitudeOfDouble(a) ELSE magnitudeOfDouble(a)

-----------------------------------------------------------------------------
(* Refinement and temporal smoothing *)

\* lines 289-298
improveByCoverage(h, skinMask, searchMode, maxIterations) ==
    [h EXCEPT !.position =
        lookAround(h.position, skinMask, maxIterations, 3, coverageRadius, searchMode)]

historyAverage == 5

\* the historyAverage slots read by improveUsingHistory, newest first
RECURSIVE averagedSlots(_, _, _)
averagedSlots(h, index, n) ==
    IF n = 0 THEN <<>>
    ELSE <<h.positionHistory[index]>> \o averagedSlots(h, getPreviousIndex(index), n - 1)

RECURSIVE SumCoord(_, _, _)
SumCoord(pts, k, i) ==
    IF i > Len(pts) THEN 0 ELSE pts[i][k] + SumCoord(pts, k, i + 1)

\* lines 312-316: the loop returns at the first slot that is (0,0)
someSlotEmpty(pts) == \E i \in 1..Len(pts) : pts[i][1] = 0 /\ pts[i][2] = 0

\* lines 321-341: avg = sum / historyAverage, then
\* int(wAvg/100 * avg + (100 - wAvg)/100 * coord), all in doubles
blend(sum, coord, wAvg) ==
    intOfDouble(
        doubleAdd(doubleMul(doubleQuotient(wAvg, 100),
                            doubleQuotient(sum, historyAverage)),
                  doubleMul(doubleQuotient(100 - wAvg, 100), doubleOfInt(coord))))

\* lines 324-342: the weight of the average by movement tier, and the blend
blendByMovement(h, pts, movementCoverage) ==
    LET w == IF CoverageBelow(movementCoverage, motionRadius, 1, 1000) THEN 95
             ELSE IF CoverageBelow(movementCoverage, motionRadius, 5, 100) THEN 80
             ELSE IF CoverageBelow(movementCoverage, motionRadius, 2, 10) THEN 50
             ELSE 0
    IN  IF w = 0 THEN [h |-> h, blended |-> FALSE, slots |-> pts]
        ELSE [h |-> [h EXCEPT !.position =
                        <<blend(SumCoord(pts, 1, 1), h.position[1], w),
                          blend(SumCoord(pts, 2, 1), h.position[2], w)>>],
              blended |-> TRUE, slots |-> pts]

\* lines 305-344; blended observes whether a blend was applied
improveUsingHistory(h, movementMap) ==
    LET pts == averagedSlots(h, h.positionIndex, historyAverage)
    IN  IF someSlotEmpty(pts) THEN [h |-> h, blended |-> FALSE, slots |-> pts]
        ELSE blendByMovement(h, pts,
                             getPointQuality(h.position, movementMap, motionRadius))

\* lines 149-161 without the early return of lines 155-157
updateLastPointUnguarded(h) ==
    LET p0_index == h.positionIndex
        p1_index == getPreviousIndex(p0_index)
        p2_index == getPreviousIndex(p1_index)
        p0 == h.positionHistory[p0_index]
        p2 == h.positionHistory[p2_index]
    IN  [h EXCEPT !.positionHistory[p1_index] =
            <<TruncDiv(p0[1] + p2[1], 2), TruncDiv(p0[2] + p2[2], 2)>>]

\* lines 149-161
updateLastPoint(h) ==
    LET p0_index == h.positionIndex
        p1_index == getPreviousIndex(p0_index)
        p2_index == getPreviousIndex(p1_index)
        p0 == h.positionHistory[p0_index]
        p2 == h.positionHistory[p2_index]
    IN  IF p2[1] = 0 /\ p2[2] = 0 THEN h
        ELSE [h EXCEPT !.positionHistory[p1_index] =
                 <<TruncDiv(p0[1] + p2[1], 2), TruncDiv(p0[2] + p2[2], 2)>>]

-----------------------------------------------------------------------------
(* Hand::solve, lines 103-146 *)

\* a variant that tries the prediction in every recovery
tryPredictionAlways(areaSearched) == TRUE

\* line 115: the prediction is tried if the area search returned false
tryPrediction(areaSearched) == ~areaSearched

\* a variant that resets the flag only on the early-out path
clearEstimateUpdatedIfNotRecorded(h, recorded) ==
    IF recorded THEN h ELSE [h EXCEPT !.estimateUpdated = FALSE]

\* line 145: reset to clean state
clearEstimateUpdated(h, recorded) == [h EXCEPT !.estimateUpdated = FALSE]

\* lines 106-108: a fresh estimate is the fallback position
useEstimate(h) ==
    IF h.estimateUpdated = TRUE THEN [h EXCEPT !.position = h.blobEstimate] ELSE h

\* lines 117-120: a second area search from a usable prediction
retryFromPrediction(a1, skinMask, jump, pred) ==
    [h |-> IF pred.point[1] # 0 /\ pred.point[2] # 0
           THEN improveByAreaSearch(a1.h, skinMask, pred.point).h
           ELSE a1.h,
     recovery |-> TRUE, jump |-> jump, gateChecked |-> a1.gateChecked,
     areaSearched |-> a1.searched, predicted |-> TRUE,
     predEmptySlots |-> someSlotEmpty(pred.slots), predPoint |-> pred.point]

\* lines 113-121
afterAreaSearch(a1, skinMask, jump) ==
    IF tryPrediction(a1.searched)
    THEN retryFromPrediction(a1, skinMask, jump, getPredictedPosition(a1.h, skinMask))
    ELSE [h |-> a1.h, recovery |-> TRUE, jump |-> jump,
          gateChecked |-> a1.gateChecked, areaSearched |-> a1.searched,
          predicted |-> FALSE, predEmptySlots |-> FALSE, predPoint |-> Sentinel]

\* a variant that recovers while the hands intersect
recoveryEnabledWhileIntersecting(lastPosition, h0) ==
    lastPosition[1] # 0 /\ lastPosition[2] # 0

\* line 112
recoveryEnabled(lastPosition, h0) ==
    lastPosition[1] # 0 /\ lastPosition[2] # 0 /\ h0.intersecting = FALSE

\* lines 110-122: the recovery stage; the record holds the Hand after it and
\* what it did
recoverPosition(h0, skinMask) ==
    LET lastPosition == h0.positionHistory[h0.positionIndex]
    IN  IF recoveryEnabled(lastPosition, h0)
        THEN afterAreaSearch(improveByAreaSearch(h0, skinMask, lastPosition),
                             skinMask, exceedsMaxDistance(lastPosition, h0.position))
        ELSE [h |-> h0, recovery |-> FALSE, jump |-> FALSE, gateChecked |-> FALSE,
              areaSearched |-> FALSE, predicted |-> FALSE,
              predEmptySlots |-> FALSE, predPoint |-> Sentinel]

\* lines 137-141: store the position in the list and fit the last point
recordPosition(h) ==
    updateLastPoint([h EXCEPT !.positionIndex = getNextIndex(h.positionIndex),
                              !.positionHistory[getNextIndex(h.positionIndex)] =
                                  h.position])

recordSmoothed(sm) ==
    [h |-> recordPosition(sm.h), blended |-> sm.blended,
     blendEmptySlots |-> someSlotEmpty(sm.slots)]

\* lines 127-141
refineAndRecord(h1, skinMask, blobs, movementMap) ==
    recordSmoothed(
        improveUsingHistory(
            improveByCoverage(h1, skinMask, getSearchModeFromBlobs(h1, blobs), 5),
            movementMap))

\* line 145, and what the call did
endSolve(h, rc, recorded, rf) ==
    [h |-> clearEstimateUpdated(rf.h, recorded),
     trace |->
       [op |-> "solve",
        fresh |-> h.estimateUpdated,
        recovery |-> rc.recovery,
        jump |-> rc.jump,
        gateChecked |-> rc.gateChecked,
        areaSearched |-> rc.areaSearched,
        predicted |-> rc.predicted,
        predEmptySlots |-> rc.predEmptySlots,
        predPoint |-> rc.predPoint,
        handed |-> rc.h.position,
        recorded |-> recorded,
        blended |-> rf.blended,
        blendEmptySlots |-> rf.blendEmptySlots]]

\* lines 125-145
afterRecovery(h, rc, skinMask, blobs, movementMap) ==
    IF rc.h.position[1] # 0 /\ rc.h.position[2] # 0
    THEN endSolve(h, rc, TRUE, refineAndRecord(rc.h, skinMask, blobs, movementMap))
    ELSE endSolve(h, rc, FALSE,
                  [h |-> rc.h, blended |-> FALSE, blendEmptySlots |-> FALSE])

\* the record holds the Hand after the call and what the call did
solve(h, skinMask, blobs, movementMap) ==
    afterRecovery(h, recoverPosition(useEstimate(h), skinMask),
                  skinMask, blobs, movementMap)

-----------------------------------------------------------------------------
(* Intersection resolver: Hand::handleIntersection, lines 350-383 *)

\* std::max(1.0, sqrt(dsq)) < limit
distanceBelow(dsq, limit) == 1 < limit /\ dsq < limit * limit

\* lines 378-381
clearIgnoreIntersect(h1) ==
    [(IF h1.ignoreIntersect THEN [h1 EXCEPT !.intersecting = FALSE] ELSE h1)
        EXCEPT !.ignoreIntersect = FALSE]

\* lines 361-376
pushAway(hf, dsq, minimalDistance, side, skinMask) ==
    IF distanceBelow(dsq, minimalDistance)
    THEN improveByCoverage([hf EXCEPT !.intersecting = TRUE], skinMask, side, 20)
    ELSE IF distanceBelow(dsq, 2 * minimalDistance)
    THEN improveByCoverage(hf, skinMask, side, 5)
    ELSE hf

handleIntersection(h, otherHandPosition, skinMask) ==
    IF h.position[1] # 0 /\ h.position[2] # 0
       /\ otherHandPosition[1] # 0 /\ otherHandPosition[2] # 0
    THEN clearIgnoreIntersect(
             pushAway([h EXCEPT !.intersecting = FALSE],
                      DistSq(h.position, otherHandPosition), 8 * cmInPixels,
                      IF h.leftHand THEN "SEARCH_LEFT" ELSE "SEARCH_RIGHT",
                      skinMask))
    ELSE h

-----------------------------------------------------------------------------
(* The inputs of the calls *)

LowBlob == [left |-> 8, right |-> 15, top |-> 8, bottom |-> 15, type |-> "LOW"]
MediumBlob == [left |-> 0, right |-> FrameW - 1, top |-> 0, bottom |-> FrameH - 1,
               type |-> "MEDIUM"]
HighBlob == [left |-> 10, right |-> 13, top |-> 2, bottom |-> 20, type |-> "HIGH"]

\* a frame's skin mask with the blobs extracted from it
Scenes ==
    {[skin |-> AllOff, blobs |-> <<>>],
     [skin |-> AllOn, blobs |-> <<MediumBlob>>],
     [skin |-> TallMask, blobs |-> <<HighBlob>>]}

\* in-frame estimates with their source blobs: inside the compact blob, on the
\* tall blob above the face line, and near the frame's corner
Estimates ==
    {[point |-> <<12, 12>>, blob |-> LowBlob],
     [point |-> <<11, 5>>, blob |-> HighBlob],
     [point |-> <<FrameW - 2, FrameH - 2>>, blob |-> MediumBlob]}

OtherHandPositions == {Sentinel, <<14, 12>>, <<0, 12>>}
Conditions == {"ONLY_HEAD", "NORMAL"}

-----------------------------------------------------------------------------
(* The Hand as a state machine *)

Assign(h) ==
    /\ position' = h.position
    /\ positionHistory' = h.positionHistory
    /\ positionIndex' = h.positionIndex
    /\ blobEstimate' = h.blobEstimate
    /\ blobHistory' = h.blobHistory
    /\ blobIndex' = h.blobIndex
    /\ estimateUpdated' = h.estimateUpdated
    /\ intersecting' = h.intersecting
    /\ ignoreIntersect' = h.ignoreIntersect
    /\ leftHand' = h.leftHand

NoCall == [op |-> "none"]

\* Hand::Hand, lines 8-13, and the default member values
HandInit ==
    /\ position = Sentinel
    /\ positionHistory = [i \in Slots |-> Sentinel]
    /\ blobHistory = [i \in Slots |-> DefaultBlob]
    /\ positionIndex = 0
    /\ blobIndex = 0
    /\ blobEstimate = Sentinel
    /\ estimateUpdated = FALSE
    /\ intersecting = FALSE
    /\ ignoreIntersect = FALSE
    /\ last = [op |-> "Hand"]
    /\ frameMask = AllOff
    /\ estCalls = 0
    /\ interCalls = 0
    /\ frames = 0
    /\ nRecorded = 0
    /\ nBlobs = 0
    /\ accepted = FALSE

\* the tracked hand is the right hand (the role is fixed at construction)
Init ==
    /\ HandInit
    /\ leftHand = FALSE
    /\ la = NoCall
    /\ pr = NoCall
    /\ fn = NoCall

\* the optional estimate of a frame is pushed before the frame's solve call
SetEstimateFrom(estimates, flags, conditions, maxFrames) ==
    /\ estCalls = 0
    /\ frames < maxFrames
    /\ \E e \in estimates, ignoreIntersection \in flags, condition \in conditions :
         \E h \in {setEstimate(this, e.point, e.blob, ignoreIntersection, condition)} :
             /\ Assign(h)
             /\ last' = [op |-> "setEstimate",
                         rejected |-> rejectsOnlyHead(this, condition),
                         exempt |-> e.blob.type = "HIGH" \/ ignoreIntersection,
                         blob |-> e.blob, estimate |-> e.point,
                         condition |-> condition]
             /\ nBlobs' = IF rejectsOnlyHead(this, condition) THEN nBlobs ELSE nBlobs + 1
             /\ accepted' = (accepted \/ ~rejectsOnlyHead(this, condition))
    /\ estCalls' = estCalls + 1
    /\ UNCHANGED <<frameMask, interCalls, frames, nRecorded, la, pr, fn>>

SolveOn(scenes, movementMaps, maxFrames) ==
    /\ frames < maxFrames
    /\ \E scene \in scenes, movementMap \in movementMaps :
         \E r \in {solve(this, scene.skin, scene.blobs, movementMap)} :
             /\ Assign(r.h)
             /\ last' = r.trace
             /\ nRecorded' = IF r.trace.recorded THEN nRecorded + 1 ELSE nRecorded
             /\ frameMask' = scene.skin
    /\ frames' = frames + 1
    /\ accepted' = FALSE
    /\ estCalls' = 0
    /\ interCalls' = 0
    /\ UNCHANGED <<nBlobs, la, pr, fn>>

\* the driver resolves intersections once after the frame's solve calls, on
\* the frame's skin mask
HandleIntersection ==
    /\ interCalls = 0
    /\ estCalls = 0
    /\ \E otherHandPosition \in OtherHandPositions :
         \E h \in {handleIntersection(this, otherHandPosition, frameMask)} :
             /\ Assign(h)
             /\ last' = [op |-> "handleIntersection",
                         other |-> otherHandPosition,
                         bothTracked |-> position[1] # 0 /\ position[2] # 0
                                         /\ otherHandPosition[1] # 0
                                         /\ otherHandPosition[2] # 0]
    /\ interCalls' = interCalls + 1
    /\ UNCHANGED <<frameMask, estCalls, frames, nRecorded, nBlobs, accepted, la, pr, fn>>

SetEstimate == SetEstimateFrom(Estimates, BOOLEAN, Conditions, MaxFrames)

Solve == SolveOn(Scenes, {AllOff}, MaxFrames)

Next == SetEstimate \/ Solve \/ HandleIntersection

Spec == Init /\ [][Next]_vars

-----------------------------------------------------------------------------
(* A tracked hand over many frames: one estimate per frame at most, on a    *)
(* scene that holds the compact blob or nothing, with or without motion.    *)

TrackFrames == 6

TrackEstimates == {[point |-> <<12, 12>>, blob |-> LowBlob]}
TrackScenes == {[skin |-> AllOff, blobs |-> <<>>],
                [skin |-> BlobMask, blobs |-> <<LowBlob>>]}

TrackEstimate == SetEstimateFrom(TrackEstimates, {FALSE}, {"NORMAL"}, TrackFrames)

TrackSolve == SolveOn(TrackScenes, MovementMaps, TrackFrames)

NextTrack == TrackEstimate \/ TrackSolve

SpecTrack == Init /\ [][NextTrack]_vars

-----------------------------------------------------------------------------
(* A hand at the border of the frame: the blob of the estimate touches the  *)
(* frame's left column or top row.                                          *)

EdgeEstimates ==
    {[point |-> <<0, 12>>, blob |-> MediumBlob],
     [point |-> <<12, 0>>, blob |-> MediumBlob],
     [point |-> <<12, 12>>, blob |-> LowBlob]}

EdgeEstimate == SetEstimateFrom(EdgeEstimates, {FALSE}, {"NORMAL"}, MaxFrames)

EdgeSolve == SolveOn(Scenes, {AllOff}, MaxFrames)

NextEdge == EdgeEstimate \/ EdgeSolve \/ HandleIntersection

SpecEdge == Init /\ [][NextEdge]_vars

-----------------------------------------------------------------------------
(* One lookAround call, iteration by iteration *)

LookStarts == {<<12, 12>>, <<9, 9>>, <<3, 12>>, <<FrameW - 2, FrameH - 2>>}
LookBudgets == {1, 5, 10, 20}
LookSteps == {3, 4}

LookCalls ==
    [start : LookStarts, mask : LookMasks, maxIterations : LookBudgets,
     stepSize : LookSteps, radius : {coverageRadius, areaRadius},
     searchMode : SearchModes]

InitLook ==
    /\ HandInit
    /\ leftHand = FALSE
    /\ pr = NoCall
    /\ fn = NoCall
    /\ \E c \in LookCalls :
         la = [op |-> "lookAround", call |-> c,
               st |-> lookStart(c.start, c.mask, c.radius),
               returned |-> FALSE, result |-> Sentinel]

LookIterate ==
    /\ la.op = "lookAround"
    /\ ~la.st.done
    /\ la' = [la EXCEPT !.st = lookIteration(la.st, la.call.maxIterations,
                                             la.call.stepSize, la.call.radius,
                                             la.call.searchMode)]
    /\ UNCHANGED <<handVars, pr, fn>>

LookReturn ==
    /\ la.op = "lookAround"
    /\ la.st.done
    /\ ~la.returned
    /\ la' = [la EXCEPT !.returned = TRUE,
                        !.result = fromSearchSpace(la.st.space, la.st.maxPos)]
    /\ UNCHANGED <<handVars, pr, fn>>

NextLook == LookIterate \/ LookReturn

SpecLook == InitLook /\ [][NextLook]_vars

-----------------------------------------------------------------------------
(* One getPredictedPosition call on a history as solve leaves it: the      *)
(* second newest slot is the midpoint written by updateLastPoint once the   *)
(* third newest is set, and any recorded point before that.                 *)

PredictPoints == {<<12, 12>>, <<16, 16>>, <<8, 8>>, <<4, 12>>, <<20, 12>>}
PredictScenes == Scenes \cup {[skin |-> BlobMask, blobs |-> <<LowBlob>>]}

historyOf(n1, n2, n3) ==
    [i \in Slots |-> IF i = 2 THEN n1 ELSE IF i = 1 THEN n2
                     ELSE IF i = 0 THEN n3 ELSE Sentinel]

InitPredict ==
    /\ HandInit
    /\ leftHand = FALSE
    /\ la = NoCall
    /\ fn = NoCall
    /\ \E n1 \in PredictPoints, n2 \in PredictPoints,
          n3 \in PredictPoints \cup {Sentinel}, scene \in PredictScenes :
         pr = [op |-> "ready", skinMask |-> scene.skin,
               h |-> [this EXCEPT
                        !.position = n1,
                        !.positionIndex = 2,
                        !.positionHistory =
                           IF n3 = Sentinel THEN historyOf(n1, n2, n3)
                           ELSE historyOf(n1, <<TruncDiv(n1[1] + n3[1], 2),
                                                TruncDiv(n1[2] + n3[2], 2)>>, n3)]]

Predict ==
    /\ pr.op = "ready"
    /\ pr' = [op |-> "getPredictedPosition", skinMask |-> pr.skinMask, h |-> pr.h,
              out |-> getPredictedPosition(pr.h, pr.skinMask)]
    /\ UNCHANGED <<handVars, la, fn>>

NextPredict == Predict

SpecPredict == InitPredict /\ [][NextPredict]_vars

-----------------------------------------------------------------------------
(* One improveUsingHistory call on a stationary hand: position and the     *)
(* historyAverage newest slots of the history hold the same point.         *)

\* points of the frame, and the point of the spec's scenario
SmoothPoints ==
    {<<x, y>> : x \in 1..(FrameW - 1), y \in {4, 12, 16}} \cup {<<100, 100>>}

\* motion masks of the four tiers: none, a little, some, a lot
SmoothMaps == {AllOff, SmallMotion, HalfMotion, AllOn}

InitSmooth ==
    /\ HandInit
    /\ leftHand = FALSE
    /\ la = NoCall
    /\ pr = NoCall
    /\ \E P \in SmoothPoints, movementMap \in SmoothMaps :
         fn = [op |-> "ready", movementMap |-> movementMap,
               h |-> [this EXCEPT !.position = P,
                                  !.positionIndex = historySize - 1,
                                  !.positionHistory = [i \in Slots |-> P]]]

Smooth ==
    /\ fn.op = "ready"
    /\ fn' = [op |-> "improveUsingHistory", movementMap |-> fn.movementMap,
              h |-> fn.h, out |-> improveUsingHistory(fn.h, fn.movementMap)]
    /\ UNCHANGED <<handVars, la, pr>>

NextSmooth == Smooth

SpecSmooth == InitSmooth /\ [][NextSmooth]_vars

-----------------------------------------------------------------------------
(* One getSearchModeFromBlobs call: a position and a list of at most two   *)
(* blobs, compact ones and tall ones of the three categories.              *)

ModeBlobs ==
    [left : {2, 12}, right : {20}, top : {0},
     bottom : {10, 15, 40, ModeFrameH - 1}, type : {"LOW", "MEDIUM", "HIGH"}]

ModeBlobLists ==
    {<<>>} \cup {<<b>> : b \in ModeBlobs} \cup {<<b, c>> : b \in ModeBlobs, c \in ModeBlobs}

\* inside both boxes, inside the wide box only, on its border, outside
ModePositions == {<<15, 5>>, <<5, 5>>, <<2, 0>>, <<1, 3>>}

InitMode ==
    /\ HandInit
    /\ leftHand = FALSE
    /\ la = NoCall
    /\ pr = NoCall
    /\ \E p \in ModePositions, blobs \in ModeBlobLists :
         fn = [op |-> "ready", blobs |-> blobs, h |-> [this EXCEPT !.position = p]]

SelectMode ==
    /\ fn.op = "ready"
    /\ fn' = [op |-> "getSearchModeFromBlobs", blobs |-> fn.blobs, h |-> fn.h,
              out |-> getSearchModeFromBlobs(fn.h, fn.blobs)]
    /\ UNCHANGED <<handVars, la, pr>>

NextMode == SelectMode

SpecMode == InitMode /\ [][NextMode]_vars

-----------------------------------------------------------------------------
(* One improveByAreaSearch call: solve has taken a fresh estimate as        *)
(* position, or kept the position of the previous frame, and searches       *)
(* around a reference point.                                                *)

AreaPositions == {<<12, 12>>, <<14, 12>>, <<16, 12>>, <<20, 20>>, <<3, 3>>}
AreaReferences == {<<12, 12>>, <<11, 5>>, <<3, 12>>, <<20, 12>>}

InitArea ==
    /\ HandInit
    /\ leftHand = FALSE
    /\ la = NoCall
    /\ pr = NoCall
    /\ \E p \in AreaPositions, reference \in AreaReferences, skinMask \in LookMasks,
          fresh \in BOOLEAN :
         fn = [op |-> "ready", skinMask |-> skinMask, reference |-> reference,
               h |-> [this EXCEPT !.position = p,
                                  !.estimateUpdated = fresh,
                                  !.blobEstimate = IF fresh THEN p ELSE Sentinel]]

AreaSearch ==
    /\ fn.op = "ready"
    /\ fn' = [op |-> "improveByAreaSearch", skinMask |-> fn.skinMask,
              reference |-> fn.reference, h |-> fn.h,
              out |-> improveByAreaSearch(fn.h, fn.skinMask, fn.reference)]
    /\ UNCHANGED <<handVars, la, pr>>

NextArea == AreaSearch

SpecArea == InitArea /\ [][NextArea]_vars

-----------------------------------------------------------------------------
(* Properties *)

handFields == <<position, blobEstimate, blobIndex, blobHistory, estimateUpdated,
                intersecting, ignoreIntersect>>

\* C1 (as stated): a setEstimate call that is rejected under ONLY_HEAD leaves
\* position, blobEstimate, blobIndex, blobHistory, estimateUpdated,
\* intersecting and ignoreIntersect at their pre-call values, for every blob
\* type and both values of ignoreIntersection.
C1_RejectionMutatesNothing ==
    [][(last'.op = "setEstimate" /\ last'.rejected) => UNCHANGED handFields]_vars

\* C1 (amended): a rejected setEstimate call leaves position, blobEstimate,
\* blobIndex, blobHistory, estimateUpdated and intersecting at their pre-call
\* values; ignoreIntersect becomes true if the blob is HIGH or
\* ignoreIntersection is set, and keeps its value otherwise.
C1_RejectionKeepsAllButIgnoreIntersect ==
    [][(last'.op = "setEstimate" /\ last'.rejected) =>
          /\ UNCHANGED <<position, blobEstimate, blobIndex, blobHistory,
                         estimateUpdated, intersecting>>
          /\ ignoreIntersect' = (ignoreIntersect \/ last'.exempt)]_vars

\* C1 witness: a rejected call with a HIGH blob or the flag set has turned
\* ignoreIntersect on and stored nothing.
C1_RejectedExemptCall ==
    /\ last.op = "setEstimate"
    /\ last.rejected
    /\ last.exempt
    /\ ignoreIntersect
    /\ ~estimateUpdated
    /\ blobEstimate = Sentinel

\* C2: after every handleIntersection call, whatever the two positions
\* (either may be the sentinel), ignoreIntersect is false.
C2_IgnoreIntersectCleared ==
    last.op = "handleIntersection" => ~ignoreIntersect

\* C3: the point returned by getPredictedPosition is non-sentinel exactly
\* when the higher of the two candidates' qualities exceeds 0.2, and it is
\* then the candidate of the higher quality.
C3_PredictionGatedOnBestQuality ==
    pr.op = "getPredictedPosition" =>
        LET best == Max(pr.out.qLinear, pr.out.qVelocity)
        IN  IF passesQualityGate(best)
            THEN pr.out.point = (IF pr.out.qVelocity > pr.out.qLinear
                                 THEN pr.out.velocity ELSE pr.out.linear)
            ELSE pr.out.point = Sentinel

InFrame(p) == p[1] >= 0 /\ p[1] < FrameW /\ p[2] >= 0 /\ p[2] < FrameH

\* C4: position and every slot of positionHistory is the sentinel (0,0) or a
\* point inside the frame, in every state reachable by setEstimate (with
\* in-frame estimates), solve and handleIntersection, for every mask.
C4_PositionsInsideFrame ==
    /\ InFrame(position)
    /\ \A i \in Slots : InFrame(positionHistory[i])

\* C5: in a lookAround call the coverage of the current point never decreases
\* from one iteration to the next, and the coverage of the returned point is
\* at least the coverage of the start point.
C5_CoverageNeverDecreases ==
    la.op = "lookAround" =>
        /\ \A k \in 1..(Len(la.st.path) - 1) :
              windowCoverage(la.st.space, la.st.path[k + 1], la.call.radius)
                >= windowCoverage(la.st.space, la.st.path[k], la.call.radius)
        /\ la.returned =>
              getCoverage(la.result, la.call.mask, la.call.radius)
                >= getCoverage(la.call.start, la.call.mask, la.call.radius)

\* C5 witness: a call has returned after several moves at a point of higher
\* coverage than its start point.
C5_ReturnedAfterClimb ==
    /\ la.op = "lookAround"
    /\ la.returned
    /\ la.st.moves >= 3
    /\ getCoverage(la.result, la.call.mask, la.call.radius)
         > getCoverage(la.call.start, la.call.mask, la.call.radius)

\* C6: a lookAround call makes at most maxIterations moves and never moves to
\* a point that is already in its visited set: every move inserts a new point.
C6_BoundedMovesNoRevisit ==
    la.op = "lookAround" =>
        /\ la.st.moves <= la.call.maxIterations
        /\ la.st.i = la.st.moves
        /\ ~la.st.reinserted
        /\ Cardinality(la.st.visited) = la.st.moves
        /\ (la.st.i >= la.call.maxIterations =>
              lookIteration(la.st, la.call.maxIterations, la.call.stepSize,
                            la.call.radius, la.call.searchMode).done)

\* C6 witness: a call has used its whole budget of at least 5 moves and has
\* returned.
C6_BudgetExhausted ==
    /\ la.op = "lookAround"
    /\ la.returned
    /\ la.call.maxIterations >= 5
    /\ la.st.moves = la.call.maxIterations

\* C7: estimateUpdated is false after every solve call, and it is true only
\* if setEstimate accepted an estimate since the last solve call returned.
C7_EstimateUpdatedOnlyAfterAccept ==
    /\ last.op = "solve" => ~estimateUpdated
    /\ estimateUpdated => accepted

\* C7 witness: the second solve call started with a fresh estimate, ran the
\* recovery, recorded a position and left the flag false.
C7_SolveClearedFreshEstimate ==
    /\ last.op = "solve"
    /\ last.fresh
    /\ last.recovery
    /\ last.recorded
    /\ ~estimateUpdated

C9_ColdStartSkipsSmoothingAndPrediction ==
    last.op = "solve" =>
        /\ last.blended => ~last.blendEmptySlots
        /\ ~last.predEmptySlots

\* C10: the two histories keep historySize slots, positionIndex and blobIndex
\* stay in [0, historySize), every recording step advances its index by one
\* modulo historySize, and the slot at the index holds the value recorded
\* last.
C10_RingBuffersWrap ==
    /\ DOMAIN positionHistory = Slots
    /\ DOMAIN blobHistory = Slots
    /\ positionIndex \in Slots
    /\ blobIndex \in Slots
    /\ positionIndex = nRecorded % historySize
    /\ blobIndex = nBlobs % historySize
    /\ (last.op = "solve" /\ last.recorded) =>
          positionHistory[positionIndex] = position
    /\ (last.op = "setEstimate" /\ ~last.rejected) =>
          blobHistory[blobIndex] = last.blob

\* C10 witness: the write after historySize recorded positions has wrapped
\* and overwritten the oldest slot.
C10_WrappedOverOldest ==
    /\ last.op = "solve"
    /\ last.recorded
    /\ nRecorded = historySize + 1
    /\ positionIndex = 1
    /\ positionHistory[1] = position
    /\ nBlobs = historySize + 1
    /\ blobIndex = 1

\* C11: a handleIntersection call with both positions different from the
\* sentinel (0,0) and ignoreIntersect false: below 8 cm it leaves intersecting
\* true and position where the side-biased search of 20 iterations ends
\* (SEARCH_LEFT for the left hand, SEARCH_RIGHT for the right hand); from 8 cm
\* to below 16 cm it leaves intersecting false and position where the same
\* search of 5 iterations ends; farther away it leaves intersecting false and
\* position unchanged.
C11_IntersectionByDistance ==
    [][(/\ last'.op = "handleIntersection"
        /\ position # Sentinel
        /\ last'.other # Sentinel
        /\ ~ignoreIntersect) =>
          LET dsq == DistSq(position, last'.other)
              side == IF leftHand THEN "SEARCH_LEFT" ELSE "SEARCH_RIGHT"
              near == (8 * cmInPixels) * (8 * cmInPixels)
              close == (16 * cmInPixels) * (16 * cmInPixels)
          IN  IF dsq < near
              THEN /\ intersecting'
                   /\ position' = lookAround(position, frameMask, 20, 3,
                                             coverageRadius, side)
              ELSE IF dsq < close
              THEN /\ ~intersecting'
                   /\ position' = lookAround(position, frameMask, 5, 3,
                                             coverageRadius, side)
              ELSE /\ ~intersecting'
                   /\ position' = position]_vars

\* C12: a solve call that directly follows a solve call on the same skin
\* mask, motion mask and blob list, with no estimate in between, leaves
\* position where the first call left it, up to one pixel of rounding per
\* coordinate, for every mask (the uniform all-on and all-off masks too).
C12_SecondSolveConverges ==
    [][(/\ last.op = "solve"
        /\ last'.op = "solve"
        /\ frameMask' = frameMask) =>
          /\ Abs(position'[1] - position[1]) <= 1
          /\ Abs(position'[2] - position[2]) <= 1]_vars

\* C13: improveUsingHistory on a hand whose position and last 5 history slots
\* all hold the same non-sentinel point P leaves position exactly P, in every
\* motion-coverage tier, after the conversion of the blend to int.
C13_StationaryPointIsFixed ==
    (/\ fn.op = "improveUsingHistory"
     /\ fn.h.position # Sentinel
     /\ \A k \in 1..historyAverage :
           averagedSlots(fn.h, fn.h.positionIndex, historyAverage)[k] = fn.h.position)
        => fn.out.h.position = fn.h.position

\* C14: getSearchModeFromBlobs returns FREE_SEARCH if no blob's bounding box
\* contains position; otherwise, for the first such blob in list order:
\* FREE_SEARCH if its height is below 15 cm, else SEARCH_DOWN for LOW,
\* SEARCH_UP for HIGH, and for MEDIUM SEARCH_DOWN if the height exceeds 40 cm
\* and FREE_SEARCH if not.  The call changes neither the Hand nor the blobs.
C14_ModeOfFirstContainingBlob ==
    [][fn'.op = "getSearchModeFromBlobs" =>
          LET p == fn.h.position
              hits == {i \in 1..Len(fn.blobs) :
                          /\ fn.blobs[i].left <= p[1] /\ p[1] <= fn.blobs[i].right
                          /\ fn.blobs[i].top <= p[2] /\ p[2] <= fn.blobs[i].bottom}
              b == fn.blobs[CHOOSE i \in hits : \A j \in hits : i <= j]
              height == b.bottom - b.top
          IN  /\ fn'.out =
                    IF hits = {} THEN "FREE_SEARCH"
                    ELSE IF height < 15 * cmInPixels THEN "FREE_SEARCH"
                    ELSE CASE b.type = "LOW" -> "SEARCH_DOWN"
                           [] b.type = "HIGH" -> "SEARCH_UP"
                           [] b.type = "MEDIUM" ->
                                IF height > 40 * cmInPixels THEN "SEARCH_DOWN"
                                ELSE "FREE_SEARCH"
              /\ fn'.h = fn.h
              /\ fn'.blobs = fn.blobs
              /\ UNCHANGED handVars]_vars

\* C14 witness: the position lies on the border of two tall boxes and the
\* mode is that of the first one, a MEDIUM blob taller than 40 cm, not that of
\* the HIGH blob behind it.
C14_FirstOfTwoBlobsDecides ==
    /\ fn.op = "getSearchModeFromBlobs"
    /\ Len(fn.blobs) = 2
    /\ fn.h.position = <<2, 0>>
    /\ containsPosition(fn.blobs[1], fn.h.position)
    /\ containsPosition(fn.blobs[2], fn.h.position)
    /\ fn.blobs[1].type = "MEDIUM"
    /\ fn.blobs[1].bottom - fn.blobs[1].top > 40 * cmInPixels
    /\ fn.blobs[2].type = "HIGH"
    /\ fn.blobs[2].bottom - fn.blobs[2].top >= 15 * cmInPixels
    /\ fn.out = "SEARCH_DOWN"

\* C15: a setEstimate call with condition ONLY_HEAD while position.y = 0
\* leaves estimateUpdated (false if no estimate was accepted since the last
\* solve), position, blobEstimate, blobIndex and blobHistory unchanged, and
\* the solve call that follows it does not take an estimate as position.
C15_RejectedAtTopRowStoresNothing ==
    [][/\ (last'.op = "setEstimate" /\ last'.condition = "ONLY_HEAD"
           /\ position[2] = 0) =>
              /\ UNCHANGED <<estimateUpdated, position, blobEstimate, blobIndex,
                             blobHistory>>
              /\ ~accepted => ~estimateUpdated'
       /\ (last.op = "setEstimate" /\ last.condition = "ONLY_HEAD"
           /\ position[2] = 0 /\ last'.op = "solve") =>
              /\ ~last'.fresh
              /\ blobEstimate' # last.estimate]_vars

\* C15 witness: in the second frame the hand is still at (0,0) and an
\* ONLY_HEAD estimate has been rejected: nothing of it is stored.
C15_RejectedAtTopRow ==
    /\ last.op = "setEstimate"
    /\ last.condition = "ONLY_HEAD"
    /\ frames = 1
    /\ position[2] = 0
    /\ ~estimateUpdated
    /\ blobEstimate # last.estimate
    /\ blobHistory[blobIndex] # last.blob

\* C16: improveByAreaSearch(reference) returns true exactly when the distance
\* from reference to position exceeds 2 * maxVelocity * cmInPixels / fps or
\* estimateUpdated is false, and the coverage quality at reference exceeds
\* 0.2; position is then the result of the FREE_SEARCH (10 iterations, step
\* 4, radius 8.5 cm) from reference, and it is unchanged when the call
\* returns false.  No other field changes.
C16_AreaSearchReturnsTrueIffSearched ==
    fn.op = "improveByAreaSearch" =>
        LET far == DistSq(fn.reference, fn.h.position) * fps * fps
                     > 4 * maxVelocity * maxVelocity * cmInPixels * cmInPixels
            good == CoverageAbove(getPointQuality(fn.reference, fn.skinMask, 0),
                                  5 * cmInPixels, 2, 10)
            expected == (far \/ ~fn.h.estimateUpdated) /\ good
        IN  /\ fn.out.searched = expected
            /\ fn.out.h =
                 [fn.h EXCEPT !.position =
                    IF expected
                    THEN lookAround(fn.reference, fn.skinMask, 10, 4,
                                    (85 * cmInPixels) \div 10, "FREE_SEARCH")
                    ELSE fn.h.position]

\* C16 witness: with a fresh estimate far from the reference point, on a
\* reference point of good quality, the call has returned true and has moved
\* position to a point found by the search.
C16_JumpSearched ==
    /\ fn.op = "improveByAreaSearch"
    /\ fn.h.estimateUpdated
    /\ fn.out.searched
    /\ fn.out.h.position # fn.h.position
    /\ fn.out.h.position # fn.reference

\* C17: on the indices 0 .. historySize - 1 getPreviousIndex and getNextIndex
\* are inverse to each other, getPreviousIndex(i) is (i - 1 + historySize)
\* mod historySize, getPreviousIndex(0) is historySize - 1, and both stay
\* inside the buffer: with positionIndex inside the buffer, every slot read by
\* updateLastPoint, getPredictedPosition and improveUsingHistory exists.
C17_IndexMapsAreInverse ==
    /\ \A i \in 0..(historySize - 1) :
          /\ getPreviousIndex(getNextIndex(i)) = i
          /\ getNextIndex(getPreviousIndex(i)) = i
          /\ getPreviousIndex(i) = (i - 1 + historySize) % historySize
          /\ getPreviousIndex(i) \in DOMAIN positionHistory
          /\ getNextIndex(i) \in DOMAIN positionHistory
    /\ getPreviousIndex(0) = historySize - 1
    /\ positionIndex \in 0..(historySize - 1)
    /\ Len(averagedSlots(this, positionIndex, historyAverage)) = historyAverage

\* C17 witness: the position recorded at slot 0 after a wrap has been
\* averaged with slot historySize - 2 into slot historySize - 1, the slot
\* before slot 0.
C17_ReadAcrossWrap ==
    /\ last.op = "solve"
    /\ last.recorded
    /\ nRecorded = historySize
    /\ positionIndex = 0
    /\ positionHistory[historySize - 2] # Sentinel
    /\ positionHistory[historySize - 1] =
          <<TruncDiv(positionHistory[0][1] + positionHistory[historySize - 2][1], 2),
            TruncDiv(positionHistory[0][2] + positionHistory[historySize - 2][2], 2)>>
    /\ positionHistory[historySize - 1] # positionHistory[0]

\* C18: only the sentinel (0,0) is an uninitialized position, points of the
\* top row and of the left column included: in every solve call a position
\* that differs from (0,0) after the recovery stage is refined, smoothed and
\* appended to positionHistory, and a last stored position that differs from
\* (0,0) enables the recovery stage (while the hands do not intersect).
C18_OnlySentinelIsUninitialized ==
    [][last'.op = "solve" =>
          /\ last'.handed # Sentinel => last'.recorded
          /\ (positionHistory[positionIndex] # Sentinel /\ ~intersecting)
                => last'.recovery]_vars

\* C19: every solve that records a position pushes the new position at the
\* next index i, overwrites slot prev(i) with the truncated component-wise
\* mean of slot i and slot prev(prev(i)) when slot prev(prev(i)) is not
\* (0,0) and leaves slot prev(i) as it was otherwise, and changes no slot
\* other than i and prev(i).
C19_PushThenBackfillMidpoint ==
    [][(last'.op = "solve" /\ last'.recorded) =>
          /\ positionIndex' = getNextIndex(positionIndex)
          /\ positionHistory'[positionIndex'] = position'
          /\ positionHistory'[getPreviousIndex(positionIndex')] =
                IF positionHistory[getPreviousIndex(getPreviousIndex(positionIndex'))]
                      # Sentinel
                THEN <<(position'[1]
                          + positionHistory[getPreviousIndex(
                                getPreviousIndex(positionIndex'))][1]) \div 2,
                       (position'[2]
                          + positionHistory[getPreviousIndex(
                                getPreviousIndex(positionIndex'))][2]) \div 2>>
                ELSE positionHistory[getPreviousIndex(positionIndex')]
          /\ \A k \in Slots \ {positionIndex', getPreviousIndex(positionIndex')} :
                positionHistory'[k] = positionHistory[k]]_vars

\* C19 witness: a recording solve whose third newest slot was set, so that
\* the second newest slot holds the mean of two different points, with an
\* odd sum that the mean truncates.
C19_MidpointBackfilled ==
    /\ last.op = "solve"
    /\ last.recorded
    /\ nRecorded >= 3
    /\ positionHistory[getPreviousIndex(getPreviousIndex(positionIndex))] # Sentinel
    /\ positionHistory[getPreviousIndex(getPreviousIndex(positionIndex))]
          # positionHistory[positionIndex]
    /\ positionHistory[getPreviousIndex(positionIndex)] # positionHistory[positionIndex]
    /\ positionHistory[getPreviousIndex(positionIndex)] =
          <<TruncDiv(positionHistory[positionIndex][1]
                       + positionHistory[getPreviousIndex(
                             getPreviousIndex(positionIndex))][1], 2),
            TruncDiv(positionHistory[positionIndex][2]
                       + positionHistory[getPreviousIndex(
                             getPreviousIndex(positionIndex))][2], 2)>>
    /\ (positionHistory[positionIndex][1]
          + positionHistory[getPreviousIndex(getPreviousIndex(positionIndex))][1]) % 2 = 1

\* C20: a solve that starts with intersecting true skips the recovery stage:
\* neither improveByAreaSearch nor getPredictedPosition runs, and the point
\* handed to the refinement stage is blobEstimate when an estimate was
\* accepted this frame and the previous position otherwise.
C20_IntersectingSkipsRecovery ==
    [][(last'.op = "solve" /\ frames' = frames + 1 /\ intersecting) =>
          /\ ~last'.recovery
          /\ ~last'.gateChecked
          /\ ~last'.areaSearched
          /\ ~last'.predicted
          /\ last'.handed = IF estimateUpdated THEN blobEstimate ELSE position]_vars

\* C20 witness: a solve ran with intersecting true on a hand whose last
\* stored position was set, so only the flag kept the recovery stage from
\* running, and the position it handed on was recorded.
C20_SolvedWhileIntersecting ==
    /\ last.op = "solve"
    /\ intersecting
    /\ nRecorded >= 2
    /\ last.recorded
    /\ ~last.recovery
    /\ positionHistory[getPreviousIndex(positionIndex)] # Sentinel

\* C21: in every lookAround iteration that moves, the point moved to is the
\* candidate of lowest index, in the offset order of the search mode, among
\* the candidates of maximal coverage that are not in the visited set; and
\* the point a call returns is the point that another lookAround call on the
\* same start, mask, budget, step, radius and mode returns.
C21_LowestIndexOfBestUnvisited ==
    [][/\ (la.op = "lookAround" /\ la'.st.moves = la.st.moves + 1) =>
            LET newPositions ==
                    newPositionsAt(la.st.maxPos,
                                   Offsets(la.call.searchMode, la.call.stepSize))
                value(j) == windowCoverage(la.st.space, newPositions[j], la.call.radius)
                unvisited == {j \in DOMAIN newPositions :
                                 visitedKey(newPositions[j]) \notin la.st.visited}
                best == {j \in unvisited : \A k \in unvisited : value(k) <= value(j)}
            IN  /\ best # {}
                /\ \E j \in best :
                      /\ \A k \in best : j <= k
                      /\ la'.st.maxPos = newPositions[j]
       /\ (la'.op = "lookAround" /\ la'.returned) =>
            la'.result = lookAround(la.call.start, la.call.mask,
                                    la.call.maxIterations, la.call.stepSize,
                                    la.call.radius, la.call.searchMode)]_vars

\* C21 witness: the last move of a call went to a candidate although a later
\* candidate in the offset order had the same coverage and was not visited
\* either, while another candidate of at least that coverage was skipped
\* because it was in the visited set.
C21_TieBrokenByOrder ==
    /\ la.op = "lookAround"
    /\ Len(la.st.path) >= 3
    /\ LET n == Len(la.st.path)
           newPositions ==
               newPositionsAt(la.st.path[n - 1],
                              Offsets(la.call.searchMode, la.call.stepSize))
           value(j) == windowCoverage(la.st.space, newPositions[j], la.call.radius)
           before == {visitedKey(la.st.path[k]) : k \in 2..(n - 1)}
       IN  \E j \in DOMAIN newPositions :
              /\ newPositions[j] = la.st.path[n]
              /\ value(j) > 0
              /\ \E k \in DOMAIN newPositions :
                    /\ k > j
                    /\ value(k) = value(j)
                    /\ visitedKey(newPositions[k]) \notin before
              /\ \E k \in DOMAIN newPositions :
                    /\ value(k) >= value(j)
                    /\ visitedKey(newPositions[k]) \in before

\* C22: intersecting is true at the start of a solve only if the most recent
\* handleIntersection call measured a distance below 8 cm between two
\* initialized hands with ignoreIntersect false: no other call writes the
\* flag, and a handleIntersection call leaves it true only in that case, so a
\* call in which either position is the sentinel leaves intersecting false.
C22_IntersectingOnlyWhenMeasuredClose ==
    [][/\ last'.op # "handleIntersection" => intersecting' = intersecting
       /\ (last'.op = "handleIntersection" /\ interCalls' = interCalls + 1
             /\ intersecting') =>
              /\ position # Sentinel
              /\ last'.other # Sentinel
              /\ distanceBelow(DistSq(position, last'.other), 8 * cmInPixels)
              /\ ~ignoreIntersect]_vars

\* C23: within one lookAround call the current point never occupies the same
\* point twice, the start point included: the points of the path, from the
\* start point to the current point, are pairwise different.
C23_PathNeverRepeatsAPoint ==
    la.op = "lookAround" =>
        \A a \in 1..Len(la.st.path), b \in 1..Len(la.st.path) :
            a # b => la.st.path[a] # la.st.path[b]
====
